---------------------------- MODULE Spec2Model ----------------------------
(***************************************************************************)
(* Model of the railway document pipeline: the keyword classifier of       *)
(* kmrl_classifier.py (RailwayDocumentClassifier) and the page merge loop  *)
(* of app.py (process_documents).                                          *)
(*                                                                         *)
(* Text is a sequence of one-character strings.  Python floats are         *)
(* modelled by exact rationals <<n, d>> in lowest terms with d > 0; the    *)
(* decimal literals of the source (0.1, 0.5, 1.2, ...) are the rationals   *)
(* they denote, and round(x, 2) rounds the exact value half-to-even.       *)
(***************************************************************************)
EXTENDS Integers, Sequences, FiniteSets, TLC

(***************************************************************************)
(* Rational arithmetic standing for float arithmetic.                      *)
(***************************************************************************)
RECURSIVE GCD(_, _)
GCD(a, b) == IF b = 0 THEN a ELSE GCD(b, a % b)

Abs(n) == IF n < 0 THEN -n ELSE n

Norm(n, d) ==
  LET g == GCD(Abs(n), Abs(d))
  IN  IF n = 0 THEN <<0, 1>> ELSE <<n \div g, d \div g>>

Whole(n) == <<n, 1>>
Dec(n, d) == Norm(n, d)

RAdd(x, y) == Norm(x[1] * y[2] + y[1] * x[2], x[2] * y[2])
RMul(x, y) ==
  LET a == Norm(x[1], y[2])
      b == Norm(y[1], x[2])
  IN  Norm(a[1] * b[1], a[2] * b[2])
RDiv(x, y) == RMul(x, <<y[2], y[1]>>)
RLt(x, y) == x[1] * y[2] < y[1] * x[2]
RLe(x, y) == x[1] * y[2] <= y[1] * x[2]
RGt(x, y) == RLt(y, x)
RGe(x, y) == RLe(y, x)
RMin(x, y) == IF RLt(y, x) THEN y ELSE x

\* round(x, ndigits) for ndigits = 2 and x >= 0: nearest multiple of 1/100,
\* a value exactly half way going to the even multiple.
round2(x) ==
  LET q == (x[1] * 100) \div x[2]
      r == (x[1] * 100) % x[2]
      h == IF 2 * r > x[2] THEN q + 1
           ELSE IF 2 * r < x[2] THEN q
           ELSE IF q % 2 = 0 THEN q ELSE q + 1
  IN  Norm(h, 100)

(***************************************************************************)
(* Strings.  A string is a sequence of characters; Len, \o and SubSeq are  *)
(* those of Sequences, and a character is a string of length 1.            *)
(***************************************************************************)
UpperChars == "ABCDEFGHIJKLMNOPQRSTUVWXYZ"
LowerChars == "abcdefghijklmnopqrstuvwxyz"
DigitChars == "0123456789"

CharAt(s, i) == SubSeq(s, i, i)
Chars(s) == { CharAt(s, i) : i \in 1..Len(s) }

LowerSet == Chars(LowerChars)
UpperSet == Chars(UpperChars)
DigitSet == Chars(DigitChars)

ToLower == [c \in UpperSet |->
              CharAt(LowerChars, CHOOSE i \in 1..Len(UpperChars) : CharAt(UpperChars, i) = c)]
ToUpper == [c \in LowerSet |->
              CharAt(UpperChars, CHOOSE i \in 1..Len(LowerChars) : CharAt(LowerChars, i) = c)]

\* str.lower() and str.upper() on one character
lower_char(c) == IF c \in UpperSet THEN ToLower[c] ELSE c
upper_char(c) == IF c \in LowerSet THEN ToUpper[c] ELSE c

\* the string whose pieces are F(text, i) for i = lo..hi, in order
RECURSIVE MapChars(_, _, _, _)
MapChars(F(_, _), text, lo, hi) ==
  IF lo > hi THEN ""
  ELSE IF lo = hi THEN F(text, lo)
  ELSE LET mid == (lo + hi) \div 2
       IN  MapChars(F, text, lo, mid) \o MapChars(F, text, mid + 1, hi)

\* (a text without upper case letters is its own lower())
lower(text) ==
  IF \A i \in 1..Len(text) : CharAt(text, i) \notin UpperSet THEN text
  ELSE MapChars(LAMBDA t, i : lower_char(CharAt(t, i)), text, 1, Len(text))

\* \s of the re module and the separators of str.split() / str.strip()
IsSpace(c) == c \in {" ", "\t", "\n", "\r", "\f"}
\* \w of the re module: letters, digits and the underscore
IsWord(c) == c \in LowerSet \/ c \in UpperSet \/ c \in DigitSet \/ c = "_"

IsBlank_mutant(text) == text = ""

\* str.strip() leaves nothing: the string is empty or all whitespace
IsBlank(text) == \A i \in 1..Len(text) : IsSpace(CharAt(text, i))

\* ' '.join(text.split()): the maximal runs of non-whitespace characters, in
\* order, with one space between two consecutive runs.  A whitespace
\* character survives, as a space, exactly when it directly follows a run
\* and another run comes later.
join_split(text) ==
  LET words == { i \in 1..Len(text) : ~IsSpace(CharAt(text, i)) }
      last  == IF words = {} THEN 0 ELSE CHOOSE i \in words : \A j \in words : j <= i
      piece(t, i) ==
        IF ~IsSpace(CharAt(t, i)) THEN CharAt(t, i)
        ELSE IF i > 1 /\ i < last /\ ~IsSpace(CharAt(t, i - 1)) THEN " "
        ELSE ""
  IN  MapChars(piece, text, 1, Len(text))

\* re.sub(r'[^\w\s]', ' ', text)
sub_special(text) ==
  MapChars(LAMBDA t, i : IF IsWord(CharAt(t, i)) \/ IsSpace(CharAt(t, i))
                         THEN CharAt(t, i) ELSE " ",
           text, 1, Len(text))

preprocess_text(text) == sub_special(join_split(lower(text)))

\* the positions of the text at which each of its characters occurs; it is
\* computed once per text and narrows the search for a keyword to the
\* positions of the keyword's first character
Index(text) == [c \in Chars(text) |-> { i \in 1..Len(text) : CharAt(text, i) = c }]

Candidates(text, ix, k) ==
  IF Len(k) = 0 THEN 1..(Len(text) + 1)
  ELSE IF CharAt(k, 1) \in DOMAIN ix THEN ix[CharAt(k, 1)]
  ELSE {}

StartsAt(text, i, k) ==
  /\ i + Len(k) - 1 <= Len(text)
  /\ SubSeq(text, i, i + Len(k) - 1) = k

\* keyword in text, with ix = Index(text)
Contains(text, ix, k) == \E i \in Candidates(text, ix, k) : StartsAt(text, i, k)

\* text.count(keyword): non-overlapping occurrences, scanning left to right
RECURSIVE count_from(_, _, _, _)
count_from(text, ix, k, i) ==
  LET found == { j \in Candidates(text, ix, k) : j >= i /\ StartsAt(text, j, k) }
  IN  IF found = {} THEN 0
      ELSE LET first == CHOOSE j \in found : \A h \in found : j <= h
           IN  1 + count_from(text, ix, k, first + (IF Len(k) = 0 THEN 1 ELSE Len(k)))

count(text, ix, k) == count_from(text, ix, k, 1)

(***************************************************************************)
(* The category model and the KMRL keyword list, in declaration order.     *)
(***************************************************************************)
railway_categories ==
  <<
    [ category |-> "safety_manual",
      keywords |-> <<
        "safety", "hazard", "risk", "emergency", "accident", "incident",
        "emergency response", "safety protocol", "hazard identification",
        "risk assessment", "safety training", "accident prevention",
        "occupational safety", "personal protective equipment", "ppe",
        "emergency evacuation", "fire safety", "first aid"
      >>,
      weight |-> Dec(12, 10) ],
    [ category |-> "technical_documentation",
      keywords |-> <<
        "specifications", "technical", "engineering", "maintenance",
        "repair", "technical specifications", "engineering drawings",
        "maintenance manual", "repair procedures", "technical standards",
        "system specifications", "component specifications",
        "installation guide", "troubleshooting", "calibration",
        "testing procedures", "quality control"
      >>,
      weight |-> Dec(10, 10) ],
    [ category |-> "operational_procedures",
      keywords |-> <<
        "operation", "procedure", "protocol", "guideline", "instruction",
        "operating procedures", "standard operating procedure", "sop",
        "operational guidelines", "work instructions", "process flow",
        "operational manual", "duty instructions", "shift procedures",
        "operational safety", "control procedures"
      >>,
      weight |-> Dec(11, 10) ],
    [ category |-> "schedule_timetable",
      keywords |-> <<
        "schedule", "timetable", "departure", "arrival", "route",
        "train schedule", "service timetable", "departure time",
        "arrival time", "route map", "frequency", "service interval",
        "peak hours", "off-peak", "holiday schedule", "special service"
      >>,
      weight |-> Dec(9, 10) ],
    [ category |-> "compliance_regulatory",
      keywords |-> <<
        "compliance", "regulation", "standard", "requirement", "audit",
        "regulatory compliance", "safety standards", "industry standards",
        "compliance audit", "regulatory requirements", "certification",
        "inspection", "quality assurance", "standard procedures",
        "legal requirements", "regulatory framework"
      >>,
      weight |-> Dec(11, 10) ],
    [ category |-> "training_manual",
      keywords |-> <<
        "training", "education", "course", "certification",
        "qualification", "training manual", "training program",
        "educational material", "certification course",
        "qualification requirements", "skill development", "competency",
        "learning objectives", "training schedule", "assessment",
        "examination", "practical training"
      >>,
      weight |-> Dec(8, 10) ],
    [ category |-> "infrastructure",
      keywords |-> <<
        "track", "signal", "station", "platform", "bridge", "tunnel",
        "railway track", "signaling system", "station infrastructure",
        "platform design", "bridge construction", "tunnel engineering",
        "overhead lines", "power supply", "track maintenance",
        "signal maintenance", "infrastructure development",
        "civil engineering", "structural design"
      >>,
      weight |-> Dec(10, 10) ],
    [ category |-> "rolling_stock",
      keywords |-> <<
        "locomotive", "coach", "wagon", "train", "vehicle",
        "rolling stock", "train composition", "locomotive maintenance",
        "coach design", "passenger coach", "freight wagon",
        "multiple unit", "emu", "dmu", "electric multiple unit",
        "diesel multiple unit", "bogies", "traction system"
      >>,
      weight |-> Dec(10, 10) ],
    [ category |-> "passenger_services",
      keywords |-> <<
        "passenger", "ticket", "booking", "service", "customer",
        "passenger services", "ticketing system", "reservation",
        "customer service", "passenger amenities", "accessibility",
        "passenger information", "announcements", "passenger safety",
        "boarding", "alighting", "passenger comfort"
      >>,
      weight |-> Dec(7, 10) ],
    [ category |-> "freight_operations",
      keywords |-> <<
        "freight", "cargo", "goods", "loading", "unloading",
        "freight operations", "cargo handling", "goods transportation",
        "loading procedures", "unloading procedures", "freight yard",
        "cargo terminal", "container handling", "bulk cargo",
        "freight scheduling", "goods wagon"
      >>,
      weight |-> Dec(8, 10) ],
    [ category |-> "signaling_communication",
      keywords |-> <<
        "signaling", "communication", "control", "interlocking", "block",
        "signal control", "communication system", "train control",
        "automatic block signaling", "centralized traffic control",
        "radio communication", "data communication", "control room",
        "dispatching", "train detection", "level crossing"
      >>,
      weight |-> Dec(11, 10) ],
    [ category |-> "electrical_systems",
      keywords |-> <<
        "electrical", "power", "traction", "substation", "overhead",
        "electrical system", "power supply", "traction power",
        "electrical substation", "overhead equipment", "pantograph",
        "electrical maintenance", "power distribution", "25kv",
        "electrical safety", "earthing", "insulation"
      >>,
      weight |-> Dec(10, 10) ]
  >>

kmrl_keywords ==
  <<
    "kmrl", "kochi metro", "kerala", "metro rail", "rapid transit",
    "kochi", "ernakulam", "aluva", "maharajas college", "palarivattom",
    "edappally", "kalamassery", "cochin", "metro station"
  >>

(***************************************************************************)
(* RailwayDocumentClassifier                                               *)
(***************************************************************************)
keyword_gain_mutant(text, ix, keyword0) ==
  IF Contains(text, ix, lower(keyword0)) THEN Whole(1) ELSE Whole(0)

\* what one keyword adds to keyword_count: 1 for being present and a tenth
\* per occurrence (text is the normalised text and ix its Index)
keyword_gain(text, ix, keyword0) ==
  LET keyword == lower(keyword0)
  IN  IF Contains(text, ix, keyword)
      THEN RAdd(Whole(1), RMul(Whole(count(text, ix, keyword)), Dec(1, 10)))
      ELSE Whole(0)

\* the sum of gain(lo), ..., gain(hi)
RECURSIVE RSum(_, _, _)
RSum(gain(_), lo, hi) ==
  IF lo > hi THEN Whole(0)
  ELSE IF lo = hi THEN gain(lo)
  ELSE LET mid == (lo + hi) \div 2
       IN  RAdd(RSum(gain, lo, mid), RSum(gain, mid + 1, hi))

\* keyword_count at the end of the loop over the keywords
keyword_count(text, ix, keywords) ==
  RSum(LAMBDA n : keyword_gain(text, ix, keywords[n]), 1, Len(keywords))

\* (mutant: the weight is capped at 1.0 before it is applied)
keyword_score_mutant(text, ix, keywords, weight) ==
  LET total_keywords == Len(keywords)
      kc             == keyword_count(text, ix, keywords)
      base_score     == IF total_keywords > 0 THEN RDiv(kc, Whole(total_keywords)) ELSE Whole(0)
      weighted_score == RMul(base_score, RMin(weight, Whole(1)))
  IN  RMin(weighted_score, Whole(1))

\* calculate_keyword_score from the normalised text on
keyword_score(text, ix, keywords, weight) ==
  LET total_keywords == Len(keywords)
      kc             == keyword_count(text, ix, keywords)
      base_score     == IF total_keywords > 0 THEN RDiv(kc, Whole(total_keywords)) ELSE Whole(0)
      weighted_score == RMul(base_score, weight)
  IN  RMin(weighted_score, Whole(1))

\* (mutant: the keywords are normalised as the text is)
calculate_keyword_score_mutant(text0, keywords, weight) ==
  LET text == preprocess_text(text0)
  IN  keyword_score(text, Index(text),
                    [n \in 1..Len(keywords) |-> preprocess_text(keywords[n])], weight)

\* preprocess_text is applied to the text only (line 182); a keyword is
\* lowercased in the loop (line 189)
calculate_keyword_score(text0, keywords, weight) ==
  LET text == preprocess_text(text0)
  IN  keyword_score(text, Index(text), keywords, weight)

\* (mutant: every occurrence of a keyword is counted)
kmrl_mentions_mutant(text, ix, keywords) ==
  LET occ[n \in 0..Len(keywords)] ==
        IF n = 0 THEN 0 ELSE occ[n - 1] + count(text, ix, lower(keywords[n]))
  IN  occ[Len(keywords)]

\* kmrl_mentions at the end of the loop: the number of KMRL keywords found
kmrl_mentions(text, ix, keywords) ==
  Cardinality({ n \in 1..Len(keywords) : Contains(text, ix, lower(keywords[n])) })

\* the value detect_kmrl_content returns for m keywords found
kmrl_score_for(m) ==
  IF Len(kmrl_keywords) > 0
  THEN RMin(RMul(RDiv(Whole(m), Whole(Len(kmrl_keywords))), Whole(2)), Whole(1))
  ELSE Whole(0)

\* detect_kmrl_content from the normalised text on
kmrl_score_of(text, ix) == kmrl_score_for(kmrl_mentions(text, ix, kmrl_keywords))

detect_kmrl_content(text0) ==
  LET text == preprocess_text(text0)
  IN  kmrl_score_of(text, Index(text))

\* str.replace(old, new) for a non-empty old: every non-overlapping occurrence,
\* left to right
RECURSIVE replace_from(_, _, _, _)
replace_from(text, old, new, i) ==
  LET found == IF Len(old) = 0 THEN {}
               ELSE { j \in i..(Len(text) - Len(old) + 1) : StartsAt(text, j, old) }
  IN  IF found = {} THEN SubSeq(text, i, Len(text))
      ELSE LET first == CHOOSE j \in found : \A h \in found : j <= h
           IN  SubSeq(text, i, first - 1) \o new
               \o replace_from(text, old, new, first + Len(old))

replace(text, old, new) == replace_from(text, old, new, 1)

IsLetter(c) == c \in LowerSet \/ c \in UpperSet

\* str.title(): a letter is upper case after a non-letter, lower case after a letter
title(text) ==
  MapChars(LAMBDA t, i :
             IF ~IsLetter(CharAt(t, i)) THEN CharAt(t, i)
             ELSE IF i = 1 \/ ~IsLetter(CharAt(t, i - 1)) THEN upper_char(CharAt(t, i))
             ELSE lower_char(CharAt(t, i)),
           text, 1, Len(text))

replacements ==
  << <<"Sop", "SOP">>, <<"Ppe", "PPE">>, <<"Emu", "EMU">>,
     <<"Dmu", "DMU">>, <<"Kmrl", "KMRL">>, <<"25Kv", "25kV">> >>

RECURSIVE apply_replacements(_, _)
apply_replacements(formatted, n) ==
  IF n = 0 THEN formatted
  ELSE replace(apply_replacements(formatted, n - 1), replacements[n][1], replacements[n][2])

format_category_name(category) ==
  apply_replacements(title(replace(category, "_", " ")), Len(replacements))

\* a sequence built element by element, as a tuple
Tuple(f) == SubSeq(f, 1, Len(f))

\* category_scores: one (category index, score) pair per category, in the
\* insertion order of the dict, which is the declaration order.
\* calculate_keyword_score and detect_kmrl_content normalise combined_text
\* anew on every call, always with the same result: classify_document
\* normalises it once (text, with ix = Index(text)) and hands it to both.
category_scores(text, ix) ==
  Tuple([i \in 1..Len(railway_categories) |->
           <<i, keyword_score(text, ix,
                              railway_categories[i].keywords,
                              railway_categories[i].weight)>>])

\* (mutant: the threshold is 0.05)
IsSignificant_mutant(item) == RGt(item[2], Dec(5, 100))

\* score > 0.1
IsSignificant(item) == RGt(item[2], Dec(1, 10))

significant_categories(scores) == SelectSeq(scores, IsSignificant)

\* list.sort(key=lambda x: x[1], reverse=True): stable, so items with equal
\* score keep their relative order
RECURSIVE insert_sorted(_, _)
insert_sorted(sorted, item) ==
  IF sorted = <<>> THEN <<item>>
  ELSE IF RGe(Head(sorted)[2], item[2])
       THEN <<Head(sorted)>> \o insert_sorted(Tail(sorted), item)
       ELSE <<item>> \o sorted

\* the first n items, sorted
RECURSIVE sorted_prefix(_, _)
sorted_prefix(items, n) ==
  IF n = 0 THEN <<>> ELSE insert_sorted(sorted_prefix(items, n - 1), items[n])

sort_by_score_mutant(items) ==
  sorted_prefix([i \in 1..Len(items) |-> items[Len(items) + 1 - i]], Len(items))

sort_by_score(items) == sorted_prefix(items, Len(items))

\* significant_categories[:5]
top_categories_mutant(items) == items

top_categories(items) == SubSeq(items, 1, IF Len(items) < 5 THEN Len(items) ELSE 5)

\* (mutant: the boosted score is not capped)
boosted_score_unclamped(score, kmrl_score) ==
  IF RGt(kmrl_score, Dec(3, 10))
  THEN RMul(score, RAdd(Whole(1), RMul(kmrl_score, Dec(5, 10))))
  ELSE score

boosted_score_mutant(score, kmrl_score) == score

\* the score reported for one kept category
boosted_score(score, kmrl_score) ==
  IF RGt(kmrl_score, Dec(3, 10))
  THEN RMin(RMul(score, RAdd(Whole(1), RMul(kmrl_score, Dec(5, 10)))), Whole(1))
  ELSE score

\* the result for one kept category
scored_result(item, kmrl_score) ==
  [category       |-> format_category_name(railway_categories[item[1]].category),
   confidence     |-> round2(boosted_score(item[2], kmrl_score)),
   kmrl_relevance |-> round2(kmrl_score)]

\* (mutant: the default classification is boosted like a scored category)
default_result_mutant(kmrl_score) ==
  [category       |-> "General Railway Document",
   confidence     |-> round2(boosted_score(IF RGt(kmrl_score, Dec(2, 10))
                                           THEN Dec(3, 10) ELSE Dec(2, 10), kmrl_score)),
   kmrl_relevance |-> round2(kmrl_score)]

\* the default classification
default_result(kmrl_score) ==
  [category       |-> "General Railway Document",
   confidence     |-> IF RGt(kmrl_score, Dec(2, 10)) THEN Dec(3, 10) ELSE Dec(2, 10),
   kmrl_relevance |-> round2(kmrl_score)]

unknown_result ==
  [category |-> "Unknown Document", confidence |-> Dec(1, 10), kmrl_relevance |-> Whole(0)]

\* the locals of one classify_document call when it returns; after the early
\* return for a blank input only combined_text and results exist
classify_locals(text, summary) ==
  LET combined_text == text \o " " \o summary
  IN  IF IsBlank(combined_text)
      THEN [combined_text |-> combined_text, results |-> <<unknown_result>>]
      ELSE
        LET normalised  == preprocess_text(combined_text)
            ix          == Index(normalised)
            scores      == category_scores(normalised, ix)
            kmrl_score  == kmrl_score_of(normalised, ix)
            significant == significant_categories(scores)
            sorted      == sort_by_score(significant)
            top         == top_categories(sorted)
        IN  [combined_text          |-> combined_text,
             category_scores        |-> scores,
             kmrl_score             |-> kmrl_score,
             significant_categories |-> sorted,
             results |->
               IF sorted # <<>>
               THEN Tuple([j \in 1..Len(top) |-> scored_result(top[j], kmrl_score)])
               ELSE <<default_result(kmrl_score)>>]

classify_document(text, summary) == classify_locals(text, summary).results

classify_railway_document(text, summary) == classify_document(text, summary)

get_confidence_description_mutant(confidence) ==
  IF RGe(confidence, Dec(9, 10)) THEN "Very High"
  ELSE IF RGt(confidence, Dec(7, 10)) THEN "High"
  ELSE IF RGe(confidence, Dec(5, 10)) THEN "Medium"
  ELSE IF RGe(confidence, Dec(3, 10)) THEN "Low"
  ELSE "Very Low"

get_confidence_description(confidence) ==
  IF RGe(confidence, Dec(9, 10)) THEN "Very High"
  ELSE IF RGe(confidence, Dec(7, 10)) THEN "High"
  ELSE IF RGe(confidence, Dec(5, 10)) THEN "Medium"
  ELSE IF RGe(confidence, Dec(3, 10)) THEN "Low"
  ELSE "Very Low"

\* (mutant: is_kmrl_document from 0.29 on)
get_category_insights_mutant(classifications) ==
  IF classifications = <<>> THEN <<>>
  ELSE
    LET top_category == classifications[1]
        high_confidence_categories ==
          SelectSeq(classifications, LAMBDA c : RGe(c.confidence, Dec(7, 10)))
    IN  [primary_category      |-> top_category.category,
         primary_confidence    |-> top_category.confidence,
         kmrl_relevance        |-> top_category.kmrl_relevance,
         high_confidence_count |-> Len(high_confidence_categories),
         is_kmrl_document      |-> RGe(top_category.kmrl_relevance, Dec(29, 100)),
         confidence_level      |-> get_confidence_description(top_category.confidence),
         category_count        |-> Len(classifications)]

\* (the empty dict is the function with the empty domain, <<>>)
get_category_insights(classifications) ==
  IF classifications = <<>> THEN <<>>
  ELSE
    LET top_category == classifications[1]
        high_confidence_categories ==
          SelectSeq(classifications, LAMBDA c : RGe(c.confidence, Dec(7, 10)))
    IN  [primary_category      |-> top_category.category,
         primary_confidence    |-> top_category.confidence,
         kmrl_relevance        |-> top_category.kmrl_relevance,
         high_confidence_count |-> Len(high_confidence_categories),
         is_kmrl_document      |-> RGt(top_category.kmrl_relevance, Dec(3, 10)),
         confidence_level      |-> get_confidence_description(top_category.confidence),
         category_count        |-> Len(classifications)]

(***************************************************************************)
(* State.                                                                  *)
(*   process_documents (app.py): the request, the upload folder and the    *)
(*   locals of the handler; extracted, inserted and ran are history        *)
(*   variables (what the OCR collaborator returned per file, how many      *)
(*   pages the renumbering loop has inserted, which of the summary and     *)
(*   the classification have been run).                                    *)
(*   classifier calls: the arguments text and summary, the locals of       *)
(*   classify_document at its return, its results, the insights, stage.    *)
(*   calls of single functions: call (operation and arguments), ret.       *)
(*   two clients of the server: now (the clock in seconds), uploads (the   *)
(*   upload folder, path to content) and requests (per client, the files   *)
(*   its upload returned and the locals of its process_documents).         *)
(***************************************************************************)
VARIABLES data, fs, pc, file_idx, page_texts, file_combined_text,
          all_page_texts, combined_text, page_counter, summary_data,
          classifications, response, extracted, inserted, ran,
          text, summary, locals, results, insights, stage,
          call, ret,
          now, uploads, requests

pipeline_vars == <<data, fs, pc, file_idx, page_texts, file_combined_text,
                   all_page_texts, combined_text, page_counter, summary_data,
                   classifications, response, extracted, inserted, ran>>
classifier_vars == <<text, summary, locals, results, insights, stage>>
call_vars == <<call, ret>>
server_vars == <<now, uploads, requests>>
vars == <<pipeline_vars, classifier_vars, call_vars, server_vars>>

\* bounds of the model
MaxFiles == 2
MaxPages == 3

\* a local that is not assigned yet, no response yet
Unset == [unset |-> TRUE]
NoResponse == [status |-> 0]
\* what the OCR collaborator did for a file
Missing == [status |-> "missing", page_texts |-> <<>>, file_combined_text |-> ""]
Failed == [status |-> "failed", page_texts |-> <<>>, file_combined_text |-> ""]
Extracted(pages, t) == [status |-> "ok", page_texts |-> pages, file_combined_text |-> t]

\* values of the variables a specification does not use
PipelineIdle ==
  /\ data = Unset /\ fs = {} /\ pc = "idle" /\ file_idx = 0
  /\ page_texts = <<>> /\ file_combined_text = ""
  /\ all_page_texts = <<>> /\ combined_text = "" /\ page_counter = 0
  /\ summary_data = Unset /\ classifications = <<>> /\ response = NoResponse
  /\ extracted = <<>> /\ inserted = 0 /\ ran = {}
ClassifierIdle ==
  /\ text = "" /\ summary = "" /\ locals = Unset /\ results = <<>>
  /\ insights = Unset /\ stage = "idle"
CallIdle == call = [op |-> "none"] /\ ret = Unset
ServerIdle == now = 0 /\ uploads = <<>> /\ requests = <<>>

(***************************************************************************)
(* process_documents                                                       *)
(***************************************************************************)
\* the i-th uploaded file as upload_files describes it
FileName(i) == "f" \o CharAt(DigitChars, i + 1) \o ".pdf"
FileInfo(i) ==
  [path          |-> [folder |-> "uploads", timestamp |-> 1, filename |-> FileName(i)],
   original_name |-> FileName(i)]

\* what the OCR collaborator can return for one file: the pages in the
\* order it emits them (0..MaxPages pages with ascending local page
\* numbers, or MaxPages pages with descending ones) ...
PageMaps ==
  { [i \in 1..n |-> [local_page_num |-> i]] : n \in 0..MaxPages }
  \cup { [i \in 1..MaxPages |-> [local_page_num |-> MaxPages + 1 - i]] }
\* ... and the text of the whole file
FileTexts == { "", "KMRL track\nsignal" }
\* the overall_summary of the summarization collaborator
Summaries == { "", "kochi metro" }
ClassificationModes == {"railway", "general"}

\* f"\n\n--- Document: {original_name} ---\n\n"
\* (mutant: the files are separated by blank lines only)
Separator_mutant(original_name) == "\n\n\n\n"

\* the line that precedes the text of a file in combined_text
Separator(original_name) == "\n\n--- Document: " \o original_name \o " ---\n\n"

\* d[k] = v on a dict
DictSet(d, k, v) == [x \in (DOMAIN d) \cup {k} |-> IF x = k THEN v ELSE d[x]]

Paths(fileinfos) == { fileinfos[i].path : i \in 1..Len(fileinfos) }

InitPipeline ==
  /\ \E n \in 0..MaxFiles, mode \in ClassificationModes, has \in BOOLEAN :
       data = [has_files |-> has,
               files |-> IF has THEN [i \in 1..n |-> FileInfo(i)] ELSE <<>>,
               classification_mode |-> mode]
  /\ fs \in SUBSET { FileInfo(i).path : i \in 1..MaxFiles }
  /\ pc = "start"
  /\ file_idx = 1
  /\ page_texts = <<>>
  /\ file_combined_text = ""
  /\ all_page_texts = <<>>
  /\ combined_text = ""
  /\ page_counter = 1
  /\ summary_data = Unset
  /\ classifications = <<>>
  /\ response = NoResponse
  /\ extracted = <<>>
  /\ inserted = 0
  /\ ran = {}

Init == InitPipeline /\ ClassifierIdle /\ CallIdle /\ ServerIdle

\* 'files' not in data: 400
Reject ==
  /\ pc = "start"
  /\ ~data.has_files
  /\ pc' = "done"
  /\ response' = [status |-> 400, error |-> "No files provided for processing"]
  /\ UNCHANGED <<server_vars, classifier_vars, call_vars, data, fs, file_idx, page_texts,
                 file_combined_text, all_page_texts,
                 combined_text, page_counter, summary_data, classifications,
                 extracted, inserted, ran>>

\* the locals are initialised and the loop over the files is entered
Begin ==
  /\ pc = "start"
  /\ data.has_files
  /\ pc' = "loop"
  /\ UNCHANGED <<server_vars, classifier_vars, call_vars, data, fs, file_idx, page_texts,
                 file_combined_text, all_page_texts,
                 combined_text, page_counter, summary_data, classifications,
                 response, extracted, inserted, ran>>

\* not os.path.exists(filepath): continue
SkipMissing ==
  /\ pc = "loop"
  /\ file_idx <= Len(data.files)
  /\ data.files[file_idx].path \notin fs
  /\ file_idx' = file_idx + 1
  /\ extracted' = Append(extracted, Missing)
  /\ UNCHANGED <<server_vars, classifier_vars, call_vars,
                 data, fs, pc, page_texts, file_combined_text,
                 all_page_texts,
                 combined_text, page_counter, summary_data, classifications,
                 response, inserted, ran>>

\* (mutant: a failed file uses up a page number)
ExtractFails_mutant ==
  /\ pc = "loop"
  /\ file_idx <= Len(data.files)
  /\ data.files[file_idx].path \in fs
  /\ file_idx' = file_idx + 1
  /\ page_counter' = page_counter + 1
  /\ extracted' = Append(extracted, Failed)
  /\ UNCHANGED <<server_vars, classifier_vars, call_vars,
                 data, fs, pc, page_texts, file_combined_text,
                 all_page_texts,
                 combined_text, summary_data, classifications,
                 response, inserted, ran>>

\* extract_document_text raises: the except branch continues with the next file
ExtractFails ==
  /\ pc = "loop"
  /\ file_idx <= Len(data.files)
  /\ data.files[file_idx].path \in fs
  /\ file_idx' = file_idx + 1
  /\ extracted' = Append(extracted, Failed)
  /\ UNCHANGED <<server_vars, classifier_vars, call_vars,
                 data, fs, pc, page_texts, file_combined_text,
                 all_page_texts,
                 combined_text, page_counter, summary_data, classifications,
                 response, inserted, ran>>

\* extract_document_text returns (page_texts, file_combined_text)
ExtractOk ==
  /\ pc = "loop"
  /\ file_idx <= Len(data.files)
  /\ data.files[file_idx].path \in fs
  /\ \E pages \in PageMaps, t \in FileTexts :
       /\ page_texts' = pages
       /\ file_combined_text' = t
       /\ extracted' = Append(extracted, Extracted(pages, t))
  /\ pc' = "renumber"
  /\ UNCHANGED <<server_vars, classifier_vars, call_vars, data, fs, file_idx, all_page_texts,
                 combined_text, page_counter,
                 summary_data, classifications, response, inserted, ran>>

\* (mutant: the page keeps its number within the file)
RenumberPage_local ==
  /\ pc = "renumber"
  /\ page_texts # <<>>
  /\ LET n == Head(page_texts).local_page_num
         page_info == [local_page_num  |-> n,
                       global_page_num |-> n,
                       source_file     |-> data.files[file_idx].original_name]
     IN  all_page_texts' = DictSet(all_page_texts, n, page_info)
  /\ page_counter' = page_counter + 1
  /\ page_texts' = Tail(page_texts)
  /\ inserted' = inserted + 1
  /\ UNCHANGED <<server_vars, classifier_vars, call_vars,
                 data, fs, pc, file_idx, file_combined_text,
                 combined_text,
                 summary_data, classifications, response, extracted, ran>>

\* (mutant: the pages of a file are taken last first)
RenumberPage_reversed ==
  /\ pc = "renumber"
  /\ page_texts # <<>>
  /\ LET page_info == [local_page_num  |-> page_texts[Len(page_texts)].local_page_num,
                       global_page_num |-> page_counter,
                       source_file     |-> data.files[file_idx].original_name]
     IN  all_page_texts' = DictSet(all_page_texts, page_counter, page_info)
  /\ page_counter' = page_counter + 1
  /\ page_texts' = SubSeq(page_texts, 1, Len(page_texts) - 1)
  /\ inserted' = inserted + 1
  /\ UNCHANGED <<server_vars, classifier_vars, call_vars,
                 data, fs, pc, file_idx, file_combined_text,
                 combined_text,
                 summary_data, classifications, response, extracted, ran>>

\* one iteration of the renumbering loop
RenumberPage ==
  /\ pc = "renumber"
  /\ page_texts # <<>>
  /\ LET page_info == [local_page_num  |-> Head(page_texts).local_page_num,
                       global_page_num |-> page_counter,
                       source_file     |-> data.files[file_idx].original_name]
     IN  all_page_texts' = DictSet(all_page_texts, page_counter, page_info)
  /\ page_counter' = page_counter + 1
  /\ page_texts' = Tail(page_texts)
  /\ inserted' = inserted + 1
  /\ UNCHANGED <<server_vars, classifier_vars, call_vars,
                 data, fs, pc, file_idx, file_combined_text,
                 combined_text,
                 summary_data, classifications, response, extracted, ran>>

\* (mutant: the text of the file is put in front of the merged text)
AppendText_mutant ==
  /\ pc = "renumber"
  /\ page_texts = <<>>
  /\ combined_text' = Separator(data.files[file_idx].original_name)
                       \o file_combined_text \o combined_text
  /\ file_idx' = file_idx + 1
  /\ pc' = "loop"
  /\ UNCHANGED <<server_vars, classifier_vars, call_vars, data, fs, page_texts, file_combined_text,
                 all_page_texts, page_counter,
                 summary_data, classifications, response, extracted, inserted, ran>>

\* after the last page: the separator and the text of the file are appended
AppendText ==
  /\ pc = "renumber"
  /\ page_texts = <<>>
  /\ combined_text' = combined_text \o Separator(data.files[file_idx].original_name)
                                    \o file_combined_text
  /\ file_idx' = file_idx + 1
  /\ pc' = "loop"
  /\ UNCHANGED <<server_vars, classifier_vars, call_vars, data, fs, page_texts, file_combined_text,
                 all_page_texts, page_counter,
                 summary_data, classifications, response, extracted, inserted, ran>>

\* not all_page_texts
no_content_mutant == combined_text = ""
no_content == DOMAIN all_page_texts = {}

\* not all_page_texts: 500
NoContent ==
  /\ pc = "loop"
  /\ file_idx > Len(data.files)
  /\ no_content
  /\ pc' = "done"
  /\ response' = [status |-> 500, error |-> "Failed to extract text from any documents"]
  /\ UNCHANGED <<server_vars, classifier_vars, call_vars, data, fs, file_idx, page_texts,
                 file_combined_text, all_page_texts,
                 combined_text, page_counter, summary_data, classifications,
                 extracted, inserted, ran>>

\* create_document_summary returns
Summarize ==
  /\ pc = "loop"
  /\ file_idx > Len(data.files)
  /\ ~no_content
  /\ \E s \in Summaries : summary_data' = [overall_summary |-> s]
  /\ ran' = ran \cup {"summary"}
  /\ pc' = "classify"
  /\ UNCHANGED <<server_vars, classifier_vars, call_vars, data, fs, file_idx, page_texts,
                 file_combined_text, all_page_texts,
                 combined_text, page_counter, classifications, response,
                 extracted, inserted>>

\* create_document_summary raises: the outer except answers 500
SummarizeFails ==
  /\ pc = "loop"
  /\ file_idx > Len(data.files)
  /\ ~no_content
  /\ pc' = "done"
  /\ response' = [status |-> 500, error |-> "Processing failed"]
  /\ UNCHANGED <<server_vars, classifier_vars, call_vars, data, fs, file_idx, page_texts,
                 file_combined_text, all_page_texts,
                 combined_text, page_counter, summary_data, classifications,
                 extracted, inserted, ran>>

Classify ==
  /\ pc = "classify"
  /\ classifications' =
       IF data.classification_mode \in {"railway", "both"}
       THEN classify_railway_document(combined_text, summary_data.overall_summary)
       ELSE <<>>
  /\ ran' = IF data.classification_mode \in {"railway", "both"}
            THEN ran \cup {"classification"} ELSE ran
  /\ pc' = "cleanup"
  /\ UNCHANGED <<server_vars, classifier_vars, call_vars, data, fs, file_idx, page_texts,
                 file_combined_text, all_page_texts,
                 combined_text, page_counter, summary_data, response,
                 extracted, inserted>>

\* the uploaded files are removed and the result is returned
Cleanup ==
  /\ pc = "cleanup"
  /\ fs' = fs \ Paths(data.files)
  /\ response' = [status |-> 200,
                  total_pages |-> Cardinality(DOMAIN all_page_texts),
                  files_processed |-> Len(data.files)]
  /\ pc' = "done"
  /\ UNCHANGED <<server_vars, classifier_vars, call_vars,
                 data, file_idx, page_texts, file_combined_text,
                 all_page_texts,
                 combined_text, page_counter, summary_data, classifications,
                 extracted, inserted, ran>>

Next ==
  \/ Reject \/ Begin \/ SkipMissing \/ ExtractFails \/ ExtractOk \/ RenumberPage
  \/ AppendText \/ NoContent \/ Summarize \/ SummarizeFails \/ Classify \/ Cleanup

Spec == Init /\ [][Next]_vars

(***************************************************************************)
(* Calls of the classifier: classify_document on a text and a summary,     *)
(* then get_category_insights on its results.                              *)
(***************************************************************************)
MaxPhrases == 3

\* the pieces the document texts are made of
Vocabulary ==
  { "Safety hazard, track signal;\n",
    "locomotive coach\tfreight cargo ",
    "power traction; technical repair. ",
    "Education course (n/a) ",
    " \n" }

RECURSIVE Concat(_)
Concat(ps) == IF ps = <<>> THEN "" ELSE Head(ps) \o Concat(Tail(ps))

Texts == { Concat(ps) : ps \in UNION { [1..n -> Vocabulary] : n \in 0..MaxPhrases } }

ClassifierSummaries ==
  { "",
    " \t",
    "n/a",
    "Kochi Metro",
    "KMRL Kochi Metro, Aluva",
    "KMRL Kochi Metro, Aluva: emergency response, safety protocol, hazard "
      \o "identification, risk assessment, safety training, accident prevention" }

InitClassify ==
  /\ PipelineIdle
  /\ CallIdle
  /\ ServerIdle
  /\ text \in Texts
  /\ summary \in ClassifierSummaries
  /\ locals = Unset
  /\ results = <<>>
  /\ insights = Unset
  /\ stage = "input"

ClassifyDocument ==
  /\ stage = "input"
  /\ locals' = classify_locals(text, summary)
  /\ results' = locals'.results
  /\ stage' = "classified"
  /\ UNCHANGED <<server_vars, pipeline_vars, call_vars, text, summary, insights>>

CategoryInsights ==
  /\ stage = "classified"
  /\ insights' = get_category_insights(results)
  /\ stage' = "done"
  /\ UNCHANGED <<server_vars, pipeline_vars, call_vars, text, summary, locals, results>>

NextClassify == ClassifyDocument \/ CategoryInsights

SpecClassify == InitClassify /\ [][NextClassify]_vars


(***************************************************************************)
(* Direct calls of the classifier's methods: each call action draws the    *)
(* arguments, and call and ret hold the call and what it returned.         *)
(***************************************************************************)
MaxKeywords == 3
MaxWords == 3
MaxResults == 2
MaxConfidence == 1000

\* keyword lists and weights for calculate_keyword_score
KeywordPool == <<"alpha", "Beta", "gamma ray", "delta", "epsilon">>
KeywordLists == { SubSeq(KeywordPool, 1, n) : n \in 0..MaxKeywords }
Weights == { railway_categories[i].weight : i \in 1..Len(railway_categories) }

Words == { "Alpha, ", "beta\n", "(GAMMA  ray) ", "delta;epsilon " }
ScoreTexts == { Concat(ws) : ws \in UNION { [1..n -> Words] : n \in 0..MaxWords } }

\* confidences in thousandths
Confidences == { Dec(n, 1000) : n \in 0..MaxConfidence }

\* lists as classify_document returns them: confidences in hundredths that
\* never increase, one kmrl_relevance for all entries
Reported == { Dec(n, 100) : n \in {0, 29, 30, 49, 50, 69, 70, 89, 90, 100} }
ResultLists ==
  { rs \in UNION { [1..n -> [category : {"Safety Manual"},
                            confidence : Reported,
                            kmrl_relevance : {Whole(0), Dec(57, 100)}]] : n \in 0..MaxResults } :
      \A j \in 1..Len(rs) : \A k \in 1..Len(rs) :
        j < k => /\ RGe(rs[j].confidence, rs[k].confidence)
                 /\ rs[j].kmrl_relevance = rs[k].kmrl_relevance }

ScoreCall ==
  /\ call.op = "none"
  /\ \E t \in ScoreTexts : \E keywords \in KeywordLists : \E weight \in Weights :
       /\ call' = [op |-> "calculate_keyword_score",
                   text |-> t, keywords |-> keywords, weight |-> weight]
       /\ ret' = calculate_keyword_score(t, keywords, weight)
  /\ UNCHANGED <<server_vars, pipeline_vars, classifier_vars>>

DescriptionCall ==
  /\ call.op = "none"
  /\ \E confidence \in Confidences :
       /\ call' = [op |-> "get_confidence_description", confidence |-> confidence]
       /\ ret' = get_confidence_description(confidence)
  /\ UNCHANGED <<server_vars, pipeline_vars, classifier_vars>>

InsightsCall ==
  /\ call.op = "none"
  /\ \E cls \in ResultLists :
       /\ call' = [op |-> "get_category_insights", classifications |-> cls]
       /\ ret' = get_category_insights(cls)
  /\ UNCHANGED <<server_vars, pipeline_vars, classifier_vars>>

\* texts for detect_kmrl_content
KmrlWords ==
  { "KMRL Kochi Metro, ", "kochi kochi KOCHI ", "Aluva; Ernakulam\n",
    "Kerala metro rail rapid transit ", "Edappally metro station " }
KmrlTexts == { Concat(ws) : ws \in UNION { [1..n -> KmrlWords] : n \in 0..MaxWords } }

KmrlCall ==
  /\ call.op = "none"
  /\ \E t \in KmrlTexts :
       /\ call' = [op |-> "detect_kmrl_content", text |-> t]
       /\ ret' = detect_kmrl_content(t)
  /\ UNCHANGED <<server_vars, pipeline_vars, classifier_vars>>

\* keyword lists with special characters, among them the list of
\* schedule_timetable with 'off-peak', and texts that spell such keywords
schedule_timetable ==
  railway_categories[CHOOSE i \in 1..Len(railway_categories) :
                       railway_categories[i].category = "schedule_timetable"]
SpecialKeywordLists ==
  { schedule_timetable.keywords,
    <<"off-peak">>,
    <<"Off-Peak", "a/c", "peak_hours", "off peak">> }
SpecialWords == { "Off-Peak hours, ", "off-peak\n", "peak_hours; ", "A/C a c " }
SpecialTexts == { Concat(ws) : ws \in UNION { [1..n -> SpecialWords] : n \in 0..MaxWords } }

SpecialKeywordCall ==
  /\ call.op = "none"
  /\ \E t \in SpecialTexts : \E keywords \in SpecialKeywordLists : \E weight \in Weights :
       /\ call' = [op |-> "calculate_keyword_score",
                   text |-> t, keywords |-> keywords, weight |-> weight]
       /\ ret' = calculate_keyword_score(t, keywords, weight)
  /\ UNCHANGED <<server_vars, pipeline_vars, classifier_vars>>

\* texts for preprocess_text
RawWords == { "Risk, ", "_assessment\t", "A-1  ", "\nsafety" }
RawTexts == { Concat(ws) : ws \in UNION { [1..n -> RawWords] : n \in 0..MaxWords } }

PreprocessCall ==
  /\ call.op = "none"
  /\ \E t \in RawTexts :
       /\ call' = [op |-> "preprocess_text", text |-> t]
       /\ ret' = preprocess_text(t)
  /\ UNCHANGED <<server_vars, pipeline_vars, classifier_vars>>

InitCalls == PipelineIdle /\ ClassifierIdle /\ CallIdle /\ ServerIdle

NextCalls ==
  \/ ScoreCall \/ DescriptionCall \/ InsightsCall \/ KmrlCall \/ PreprocessCall
  \/ SpecialKeywordCall

SpecCalls == InitCalls /\ [][NextCalls]_vars

(***************************************************************************)
(* Two clients of the server.  Each uploads one file (upload_files) and    *)
(* then has it processed (process_documents); the requests of the two      *)
(* clients interleave at the accesses to the upload folder.  The OCR       *)
(* collaborator returns the pages and the text of the content it reads.    *)
(***************************************************************************)
MaxTime == 2

Clients == {1, 2}
UploadNames == { "scan.pdf", "report.pdf" }

\* the document client c uploads, as the OCR collaborator reads it
Document(c) ==
  IF c = 1 THEN [pages |-> 2, text |-> "KMRL track"]
  ELSE [pages |-> 1, text |-> "signal"]

NewRequest ==
  [pc |-> "new", files |-> <<>>, file_idx |-> 1, all_page_texts |-> <<>>,
   combined_text |-> "", page_counter |-> 1, classifications |-> <<>>,
   response |-> NoResponse]

InitServer ==
  /\ PipelineIdle
  /\ ClassifierIdle
  /\ CallIdle
  /\ now = 1
  /\ uploads = <<>>
  /\ requests = [c \in Clients |-> NewRequest]

\* time.time() passes to the next second
Tick ==
  /\ now < MaxTime
  /\ now' = now + 1
  /\ UNCHANGED <<pipeline_vars, classifier_vars, call_vars, uploads, requests>>

\* upload_files with one file: it is saved as <timestamp>_<filename>
Upload(c) ==
  /\ requests[c].pc = "new"
  /\ \E name \in UploadNames :
       LET filepath == [folder |-> "uploads", timestamp |-> now, filename |-> name]
       IN  /\ uploads' = DictSet(uploads, filepath, c)
           /\ requests' = [requests EXCEPT
                ![c].files = << [path |-> filepath, original_name |-> name] >>,
                ![c].pc = "loop"]
  /\ UNCHANGED <<pipeline_vars, classifier_vars, call_vars, now>>

\* process_documents, the loop head: os.path.exists(filepath)
CheckExists(c) ==
  LET r == requests[c]
  IN  /\ r.pc = "loop"
      /\ r.file_idx <= Len(r.files)
      /\ requests' =
           IF r.files[r.file_idx].path \in DOMAIN uploads
           THEN [requests EXCEPT ![c].pc = "extract"]
           ELSE [requests EXCEPT ![c].file_idx = r.file_idx + 1]
      /\ UNCHANGED <<pipeline_vars, classifier_vars, call_vars, now, uploads>>

\* extract_document_text reads the file; its pages are renumbered and its
\* text is appended.  A file removed since the check makes it raise, and
\* the except branch continues with the next file.
ExtractAndMerge(c) ==
  LET r        == requests[c]
      filepath == r.files[r.file_idx].path
      name     == r.files[r.file_idx].original_name
  IN  /\ r.pc = "extract"
      /\ requests' =
           IF filepath \in DOMAIN uploads
           THEN LET content == uploads[filepath]
                    n       == Document(content).pages
                    first   == r.page_counter
                IN  [requests EXCEPT
                       ![c].all_page_texts =
                          [g \in (DOMAIN r.all_page_texts) \cup (first..(first + n - 1)) |->
                             IF g \in DOMAIN r.all_page_texts THEN r.all_page_texts[g]
                             ELSE [local_page_num  |-> g - first + 1,
                                   document        |-> content,
                                   global_page_num |-> g,
                                   source_file     |-> name]],
                       ![c].page_counter = first + n,
                       ![c].combined_text =
                          r.combined_text \o Separator(name) \o Document(content).text,
                       ![c].file_idx = r.file_idx + 1,
                       ![c].pc = "loop"]
           ELSE [requests EXCEPT ![c].file_idx = r.file_idx + 1, ![c].pc = "loop"]
      /\ UNCHANGED <<pipeline_vars, classifier_vars, call_vars, now, uploads>>

\* after the loop: 500 without pages, else the summary (here with an empty
\* overall_summary) and the classification
Finish(c) ==
  LET r == requests[c]
  IN  /\ r.pc = "loop"
      /\ r.file_idx > Len(r.files)
      /\ requests' =
           IF DOMAIN r.all_page_texts = {}
           THEN [requests EXCEPT
                   ![c].response = [status |-> 500,
                                    error |-> "Failed to extract text from any documents"],
                   ![c].pc = "done"]
           ELSE [requests EXCEPT
                   ![c].classifications = classify_railway_document(r.combined_text, ""),
                   ![c].pc = "cleanup"]
      /\ UNCHANGED <<pipeline_vars, classifier_vars, call_vars, now, uploads>>

\* the files of the request are removed and the result is returned
RemoveUploads(c) ==
  LET r == requests[c]
  IN  /\ r.pc = "cleanup"
      /\ uploads' = [p \in (DOMAIN uploads) \ Paths(r.files) |-> uploads[p]]
      /\ requests' = [requests EXCEPT
                        ![c].response = [status |-> 200,
                                         total_pages |-> Cardinality(DOMAIN r.all_page_texts),
                                         files_processed |-> Len(r.files)],
                        ![c].pc = "done"]
      /\ UNCHANGED <<pipeline_vars, classifier_vars, call_vars, now>>

NextServer ==
  \/ Tick
  \/ \E c \in Clients : Upload(c)
  \/ \E c \in Clients : CheckExists(c)
  \/ \E c \in Clients : ExtractAndMerge(c)
  \/ \E c \in Clients : Finish(c)
  \/ \E c \in Clients : RemoveUploads(c)

SpecServer == InitServer /\ [][NextServer]_vars

(***************************************************************************)
(* Properties of process_documents.                                        *)
(***************************************************************************)
\* the pages the OCR collaborator returned for the j-th file handled
PagesOf(j) == extracted[j].page_texts

\* the number of pages of the files handled before the j-th
RECURSIVE PagesBefore(_)
PagesBefore(j) == IF j <= 1 THEN 0 ELSE PagesBefore(j - 1) + Len(PagesOf(j - 1))

\* the number of pages of the j-th file that the renumbering loop has inserted
Merged(j) ==
  IF j = Len(extracted) /\ pc = "renumber"
  THEN Len(PagesOf(j)) - Len(page_texts)
  ELSE Len(PagesOf(j))

\* C1: after every page insertion the keys of all_page_texts are exactly
\* 1..n, n being the number of pages inserted so far, every record carries
\* its key as global_page_num, and page_counter is n + 1.
C1_ContiguousPageNumbers ==
  /\ DOMAIN all_page_texts = 1..inserted
  /\ \A k \in DOMAIN all_page_texts : all_page_texts[k].global_page_num = k
  /\ page_counter = inserted + 1

\* pages of two files have been inserted
C1_Witness ==
  /\ inserted >= 4
  /\ all_page_texts[1].source_file = FileName(1)
  /\ all_page_texts[inserted].source_file = FileName(2)

\* C2: the pages of a file get the numbers that follow those of all earlier
\* files, in the order the OCR collaborator emitted them, and a file is
\* extracted only when every earlier file is merged completely.
C2_SubmissionOrder ==
  /\ Len(extracted) = (IF pc = "renumber" THEN file_idx ELSE file_idx - 1)
  /\ inserted = PagesBefore(Len(extracted) + 1) - Len(page_texts)
  /\ \A j \in 1..Len(extracted) :
       /\ j < Len(extracted) => Merged(j) = Len(PagesOf(j))
       /\ \A p \in 1..Merged(j) :
            LET g == PagesBefore(j) + p
            IN  /\ g \in DOMAIN all_page_texts
                /\ all_page_texts[g].source_file = data.files[j].original_name
                /\ all_page_texts[g].local_page_num = PagesOf(j)[p].local_page_num
                /\ all_page_texts[g].global_page_num = g

\* file A with 3 pages, emitted last page first, then file B with 2 pages:
\* A has 1..3 and B has 4..5
C2_Witness ==
  /\ pc = "done"
  /\ Len(extracted) = 2
  /\ Len(PagesOf(1)) = 3 /\ PagesOf(1)[1].local_page_num = 3
  /\ Len(PagesOf(2)) = 2
  /\ \A g \in 1..3 : all_page_texts[g].source_file = FileName(1)
  /\ \A g \in 4..5 : all_page_texts[g].source_file = FileName(2)

\* C3: a file whose extraction fails, or whose path does not exist, leaves
\* all_page_texts and page_counter as they were, and no page carries its
\* name; the numbers in use are those of the pages of the other files.
C3_FailedFileSkipped ==
  /\ [][ ( /\ Len(extracted') = Len(extracted) + 1
           /\ extracted'[Len(extracted')].status \in {"missing", "failed"} )
         => ( /\ all_page_texts' = all_page_texts
              /\ page_counter' = page_counter ) ]_vars
  /\ [] ( \A j \in 1..Len(extracted) :
            extracted[j].status \in {"missing", "failed"} =>
              /\ PagesBefore(j + 1) = PagesBefore(j)
              /\ \A g \in DOMAIN all_page_texts :
                   all_page_texts[g].source_file # data.files[j].original_name )
  /\ [] ( pc # "renumber" => page_counter = PagesBefore(Len(extracted) + 1) + 1 )

\* a failed file followed by a file of 2 pages: the numbers are 1..2
C3_Witness ==
  /\ pc = "done"
  /\ Len(extracted) = 2
  /\ extracted[1].status = "failed"
  /\ Len(PagesOf(2)) = 2
  /\ DOMAIN all_page_texts = 1..2
  /\ \A g \in 1..2 : all_page_texts[g].source_file = FileName(2)

NoContentResponse ==
  [status |-> 500, error |-> "Failed to extract text from any documents"]

\* C4: a request with a file list ends in the no-content failure exactly
\* when no file contributed a page; then neither the summary nor the
\* classification is run; and when some file contributed a page the request
\* goes on to the summary, whatever happened to the other files.
C4_NoContentIff ==
  (pc = "done" /\ data.has_files) =>
    LET none == \A j \in 1..Len(extracted) : PagesOf(j) = <<>>
    IN  /\ Len(extracted) = Len(data.files)
        /\ (response = NoContentResponse) <=> none
        /\ none => ran = {}
        /\ ~none => \/ (response.status = 200 /\ "summary" \in ran)
                    \/ response = [status |-> 500, error |-> "Processing failed"]

\* every file of a non-empty list failed or was missing
C4_Witness ==
  /\ pc = "done"
  /\ Len(data.files) >= 2
  /\ extracted[1].status = "failed"
  /\ response = NoContentResponse

\* one file failed, another contributed pages, and the request succeeded
C4_WitnessPartial ==
  /\ pc = "done"
  /\ \E j \in 1..Len(extracted) : extracted[j].status = "failed"
  /\ response.status = 200

\* what the first j files have added to combined_text
RECURSIVE MergedText(_)
MergedText(j) ==
  IF j = 0 THEN ""
  ELSE MergedText(j - 1)
       \o (IF extracted[j].status = "ok"
           THEN "\n\n--- Document: " \o data.files[j].original_name \o " ---\n\n"
                \o extracted[j].file_combined_text
           ELSE "")

\* C11: combined_text is, in submission order and over the files whose
\* extraction succeeded, the separator naming the file followed by the
\* file's extracted text; a failed or missing file adds nothing.  It holds
\* after every file of the loop, hence at the end of the merge.
C11_CombinedText ==
  /\ pc \in {"loop", "classify", "cleanup", "done"} =>
       combined_text = MergedText(Len(extracted))
  /\ pc = "renumber" => combined_text = MergedText(Len(extracted) - 1)

\* a request done with a failed first file and a second file with text
C11_Witness ==
  /\ pc = "done"
  /\ response.status = 200
  /\ Len(extracted) = 2
  /\ extracted[1].status \in {"failed", "missing"}
  /\ extracted[2].status = "ok"
  /\ extracted[2].file_combined_text # ""
  /\ combined_text = "\n\n--- Document: f2.pdf ---\n\nKMRL track\nsignal"

\* C20: whenever process_documents runs the classification, its combined
\* text holds the separator line of a file and so is not blank, and no
\* returned classification is Unknown Document, whatever text was extracted
\* and whatever the summary is.
C20_NeverUnknownDocument ==
  ("classification" \in ran) =>
    /\ \E j \in 1..Len(data.files) :
         Contains(combined_text, Index(combined_text),
                  "\n\n--- Document: " \o data.files[j].original_name \o " ---\n\n")
    /\ \E i \in 1..Len(combined_text) :
         CharAt(combined_text, i) \notin {" ", "\t", "\n", "\r", "\f"}
    /\ Len(classifications) > 0
    /\ \A k \in 1..Len(classifications) :
         classifications[k].category # "Unknown Document"

\* the classification has run on pages whose extracted text is empty, with
\* an empty summary
C20_Witness ==
  /\ "classification" \in ran
  /\ DOMAIN all_page_texts # {}
  /\ summary_data.overall_summary = ""
  /\ \A j \in 1..Len(extracted) :
       extracted[j].status = "ok" => extracted[j].file_combined_text = ""
  /\ Len(classifications) > 0

\* what process_documents produces for client c when it runs alone
Alone(c) ==
  LET name == requests[c].files[1].original_name
      text_alone == "\n\n--- Document: " \o name \o " ---\n\n" \o Document(c).text
  IN  [all_page_texts |-> [g \in 1..Document(c).pages |->
                             [local_page_num  |-> g,
                              document        |-> c,
                              global_page_num |-> g,
                              source_file     |-> name]],
       combined_text |-> text_alone,
       classifications |-> classify_railway_document(text_alone, "")]

\* C13: two requests handled concurrently do not interfere: what a finished
\* request has produced (page mapping, combined text, classification) is
\* what it produces when it runs alone.
C13_NoInterference ==
  \A c \in Clients :
    requests[c].pc = "done" =>
      /\ requests[c].response.status = 200
      /\ requests[c].all_page_texts = Alone(c).all_page_texts
      /\ requests[c].combined_text = Alone(c).combined_text
      /\ requests[c].classifications = Alone(c).classifications

(***************************************************************************)
(* Properties of classify_document.                                        *)
(***************************************************************************)
Classified == stage \in {"classified", "done"}

\* the call took the early return for a blank input
EarlyReturn == DOMAIN locals = {"combined_text", "results"}

\* C5: classify_document returns at most 5 results, and the reported
\* confidences (after boost, clamp and rounding) never increase along the
\* returned sequence.
C5_AtMostFiveNonIncreasing ==
  Classified =>
    /\ Len(results) <= 5
    /\ \A j \in 1..Len(results) : \A k \in 1..Len(results) :
         j < k => ~(results[j].confidence[1] * results[k].confidence[2]
                      < results[k].confidence[1] * results[j].confidence[2])

\* more than 5 categories were kept, the list was cut to 5, and the boost and
\* the clamp to 1.0 were applied
C5_Witness ==
  /\ Classified
  /\ ~EarlyReturn
  /\ Len(locals.significant_categories) > 5
  /\ Len(results) = 5
  /\ locals.kmrl_score[1] * 10 > 3 * locals.kmrl_score[2]
  /\ results[1].confidence = <<1, 1>>
  /\ results[1].confidence # results[5].confidence

\* the declaration index of the category of the j-th result
\* (results[j] is made from significant_categories[j])
DeclaredAt(j) == locals.significant_categories[j][1]

\* C6 as stated: of two results with equal confidence, the one whose
\* category is declared earlier comes first.
C6_EqualConfidenceDeclarationOrder ==
  (Classified /\ ~EarlyReturn) =>
    \A j \in 1..Len(results) : \A k \in 1..Len(results) :
      (j < k /\ Len(locals.significant_categories) > 0
             /\ results[j].confidence = results[k].confidence)
        => DeclaredAt(j) < DeclaredAt(k)

\* C6: the j-th result is the j-th kept category, and of two results whose
\* categories have equal scores (before boost, clamp and rounding) the one
\* declared earlier comes first.
C6_EqualScoreDeclarationOrder ==
  (Classified /\ ~EarlyReturn /\ Len(locals.significant_categories) > 0) =>
    /\ \A j \in 1..Len(results) :
         /\ j <= Len(locals.significant_categories)
         /\ results[j].category
              = format_category_name(railway_categories[DeclaredAt(j)].category)
    /\ \A j \in 1..Len(results) : \A k \in 1..Len(results) :
         (j < k /\ locals.significant_categories[j][2] = locals.significant_categories[k][2])
           => DeclaredAt(j) < DeclaredAt(k)

\* two results have categories of equal score
C6_Witness ==
  /\ Classified
  /\ ~EarlyReturn
  /\ \E j \in 1..Len(results) : \E k \in 1..Len(results) :
       /\ j < k
       /\ k <= Len(locals.significant_categories)
       /\ locals.significant_categories[j][2] = locals.significant_categories[k][2]

\* C7: for a text and a summary that are both empty or all whitespace the
\* call returns the single result Unknown Document, 0.1, 0.0 and computes
\* neither a category score nor the KMRL score.
C7_BlankInputUnknown ==
  (/\ Classified
   /\ \A i \in 1..Len(text) : CharAt(text, i) \in {" ", "\t", "\n", "\r", "\f"}
   /\ \A i \in 1..Len(summary) : CharAt(summary, i) \in {" ", "\t", "\n", "\r", "\f"}) =>
    /\ results = << [category |-> "Unknown Document",
                     confidence |-> <<1, 10>>,
                     kmrl_relevance |-> <<0, 1>>] >>
    /\ "category_scores" \notin DOMAIN locals
    /\ "kmrl_score" \notin DOMAIN locals

\* a whitespace-only text with a whitespace-only summary has been classified
C7_Witness ==
  /\ Classified
  /\ text # "" /\ summary # ""
  /\ \A i \in 1..Len(text) : CharAt(text, i) \in {" ", "\t", "\n"}
  /\ \A i \in 1..Len(summary) : CharAt(summary, i) \in {" ", "\t", "\n"}
  /\ Len(results) = 1

\* C9: every kept category reports min(score * (1 + kmrl * 0.5), 1.0)
\* rounded to 2 decimals when the KMRL score of the call is above 0.3 and the
\* rounded score otherwise, all with the one KMRL score of the call; a score
\* of 0.5 with a KMRL score of 0.4 reports 0.60.
C9_BoostFormula ==
  /\ round2(boosted_score(<<1, 2>>, <<2, 5>>)) = <<3, 5>>
  /\ (Classified /\ ~EarlyReturn /\ Len(locals.significant_categories) > 0) =>
       \A j \in 1..Len(results) :
         LET score   == locals.significant_categories[j][2]
             kmrl    == locals.kmrl_score
             \* score * (1 + kmrl / 2) = score * (2 * kmrl[2] + kmrl[1]) / (2 * kmrl[2])
             boosted == Norm(score[1] * (2 * kmrl[2] + kmrl[1]), score[2] * 2 * kmrl[2])
             capped  == IF boosted[1] > boosted[2] THEN <<1, 1>> ELSE boosted
         IN  /\ results[j].confidence
                  = IF kmrl[1] * 10 > 3 * kmrl[2] THEN round2(capped) ELSE round2(score)
             /\ results[j].kmrl_relevance = round2(kmrl)

\* a call with a KMRL score above 0.3 in which one kept category is boosted
\* to the cap of 1.0 and another is boosted below it
C9_Witness ==
  /\ Classified
  /\ ~EarlyReturn
  /\ locals.kmrl_score[1] * 10 > 3 * locals.kmrl_score[2]
  /\ Len(results) >= 2
  /\ results[1].confidence = <<1, 1>>
  /\ RLt(locals.significant_categories[1][2], <<1, 1>>)
  /\ RLt(round2(locals.significant_categories[2][2]), results[2].confidence)
  /\ RLt(results[2].confidence, <<1, 1>>)

\* C12: every result of classify_document (Unknown Document, the fallback
\* or a scored category, boosted or not) has its confidence and its
\* kmrl_relevance between 0 and 1.
C12_ResultsInUnitInterval ==
  Classified =>
    \A j \in 1..Len(results) :
      /\ results[j].confidence[1] >= 0
      /\ results[j].confidence[1] <= results[j].confidence[2]
      /\ results[j].kmrl_relevance[1] >= 0
      /\ results[j].kmrl_relevance[1] <= results[j].kmrl_relevance[2]

\* a scored category whose boosted score exceeds 1.0 before the cap
C12_Witness ==
  /\ Classified
  /\ ~EarlyReturn
  /\ Len(locals.significant_categories) > 0
  /\ locals.kmrl_score[1] * 10 > 3 * locals.kmrl_score[2]
  /\ LET score == locals.significant_categories[1][2]
         kmrl  == locals.kmrl_score
     IN  score[1] * (2 * kmrl[2] + kmrl[1]) > score[2] * 2 * kmrl[2]
  /\ results[1].confidence = <<1, 1>>
  /\ results[1].kmrl_relevance = <<57, 100>>

\* C15: for an input that is not blank and gives no category a score above
\* 0.1 the call returns the single result General Railway Document, with
\* confidence 0.3 when the KMRL score is above 0.2 and 0.2 otherwise (never
\* boosted) and the KMRL score rounded to 2 decimals as kmrl_relevance.
C15_FallbackResult ==
  (/\ Classified
   /\ ~EarlyReturn
   /\ \A i \in 1..Len(locals.category_scores) :
        locals.category_scores[i][2][1] * 10 <= locals.category_scores[i][2][2]) =>
    LET kmrl == locals.kmrl_score
    IN  results = << [category       |-> "General Railway Document",
                      confidence     |-> IF kmrl[1] * 10 > 2 * kmrl[2]
                                         THEN <<3, 10>> ELSE <<1, 5>>,
                      kmrl_relevance |-> round2(kmrl)] >>

\* the fallback with a KMRL score above the boost threshold: still 0.3
C15_Witness ==
  /\ Classified
  /\ ~EarlyReturn
  /\ locals.significant_categories = <<>>
  /\ locals.kmrl_score = <<4, 7>>
  /\ results[1].category = "General Railway Document"
  /\ results[1].confidence = <<3, 10>>
  /\ results[1].kmrl_relevance = <<57, 100>>

\* the fallback with a KMRL score of at most 0.2: 0.2
C15_WitnessLow ==
  /\ Classified
  /\ ~EarlyReturn
  /\ locals.significant_categories = <<>>
  /\ locals.kmrl_score = <<0, 1>>
  /\ results[1].confidence = <<1, 5>>

\* C18 as stated: every result for a scored category reports a confidence
\* strictly above 0.1.
C18_ReportedAboveThreshold ==
  (Classified /\ ~EarlyReturn /\ Len(locals.significant_categories) > 0) =>
    \A j \in 1..Len(results) :
      results[j].confidence[1] * 10 > results[j].confidence[2]

\* C18: every result for a scored category has a score (before boost and
\* rounding) strictly above 0.1 and reports a confidence of at least 0.1;
\* rounding can bring the reported value down to exactly 0.1.
C18_ScoreAboveThreshold ==
  (Classified /\ ~EarlyReturn /\ Len(locals.significant_categories) > 0) =>
    \A j \in 1..Len(results) :
      /\ locals.significant_categories[j][2][1] * 10 > locals.significant_categories[j][2][2]
      /\ results[j].confidence[1] * 10 >= results[j].confidence[2]

\* a scored category with a score above 0.1 that reports exactly 0.1
C18_Witness ==
  /\ Classified
  /\ ~EarlyReturn
  /\ Len(locals.significant_categories) > 0
  /\ \E j \in 1..Len(results) :
       /\ locals.significant_categories[j][2][1] * 10 > locals.significant_categories[j][2][2]
       /\ results[j].confidence = <<1, 10>>
       /\ results[j].category = "Training Manual"

\* C19: for the results of a call with scored categories,
\* get_category_insights reports is_kmrl_document exactly when the call
\* applied the boost (KMRL score above 0.3): for every KMRL score the 14
\* keywords can give, the rounded and the unrounded value are on the same
\* side of 0.3.
C19_KmrlDocumentIffBoosted ==
  /\ \A m \in 0..Len(kmrl_keywords) :
       LET kmrl == kmrl_score_for(m)
       IN  (round2(kmrl)[1] * 10 > 3 * round2(kmrl)[2]) <=> (kmrl[1] * 10 > 3 * kmrl[2])
  /\ (stage = "done" /\ ~EarlyReturn /\ Len(locals.significant_categories) > 0) =>
       (insights.is_kmrl_document
          <=> locals.kmrl_score[1] * 10 > 3 * locals.kmrl_score[2])

\* insights of a boosted call
C19_Witness ==
  /\ stage = "done"
  /\ ~EarlyReturn
  /\ Len(locals.significant_categories) > 0
  /\ locals.kmrl_score = <<4, 7>>
  /\ RLt(round2(locals.significant_categories[1][2]), results[1].confidence)
  /\ insights.is_kmrl_document

\* insights of a call with a KMRL score of 2/7, reported as 0.29: no boost
C19_WitnessBelow ==
  /\ stage = "done"
  /\ ~EarlyReturn
  /\ Len(locals.significant_categories) > 0
  /\ locals.kmrl_score = <<2, 7>>
  /\ results[1].kmrl_relevance = <<29, 100>>
  /\ ~insights.is_kmrl_document

(***************************************************************************)
(* Properties of calculate_keyword_score, get_confidence_description and   *)
(* get_category_insights.                                                  *)
(***************************************************************************)
\* the call is calculate_keyword_score with a non-empty keyword list of
\* which every keyword occurs exactly once in the normalised text
EachKeywordOnce ==
  /\ call.op = "calculate_keyword_score"
  /\ call.keywords # <<>>
  /\ LET normalised == preprocess_text(call.text)
     IN  \A n \in 1..Len(call.keywords) :
           count(normalised, Index(normalised), lower(call.keywords[n])) = 1

\* C8 as stated: when every keyword of the list occurs exactly once, the
\* score is min(weight, 1.0).
C8_AllKeywordsOnceWeight ==
  EachKeywordOnce =>
    ret = IF call.weight[1] > call.weight[2] THEN <<1, 1>> ELSE call.weight

\* C8: when every keyword of the list occurs exactly once, each keyword adds
\* 1 + 0.1 to the count and the score is min(1.1 * weight, 1.0).
C8_AllKeywordsOnceScore ==
  EachKeywordOnce =>
    LET w == Norm(11 * call.weight[1], 10 * call.weight[2])
    IN  ret = IF w[1] > w[2] THEN <<1, 1>> ELSE w

\* three keywords, each occurring once, with a weight whose 1.1-fold is
\* still below 1.0
C8_Witness ==
  /\ EachKeywordOnce
  /\ Len(call.keywords) >= 3
  /\ call.weight = <<7, 10>>
  /\ ret = <<77, 100>>

\* C14: calculate_keyword_score returns min(S / |keywords| * weight, 1.0),
\* S being the sum over the keywords found in the normalised text of
\* 1 + 0.1 * occurrences; it returns 0 for an empty keyword list and for an
\* empty text, and the weight itself is not capped.
C14_KeywordScoreFormula ==
  call.op = "calculate_keyword_score" =>
    LET normalised == preprocess_text(call.text)
        ix         == Index(normalised)
        K          == call.keywords
        occ(n)     == count(normalised, ix, lower(K[n]))
        found      == { n \in 1..Len(K) : occ(n) > 0 }
        \* S in tenths: 10 + occurrences for every keyword found
        tenths[F \in SUBSET found] ==
          IF F = {} THEN 0
          ELSE LET n == CHOOSE m \in F : TRUE IN 10 + occ(n) + tenths[F \ {n}]
        S          == tenths[found]
        value      == Norm(S * call.weight[1], 10 * Len(K) * call.weight[2])
    IN  /\ K # <<>> => ret = IF value[1] > value[2] THEN <<1, 1>> ELSE value
        /\ K = <<>> => ret = <<0, 1>>
        /\ call.text = "" => ret = <<0, 1>>

\* a weight of 1.2 applied in full: two of three keywords found, one of
\* them twice, score 2.3 / 3 * 1.2 = 0.92
C14_Witness ==
  /\ call.op = "calculate_keyword_score"
  /\ call.weight = <<6, 5>>
  /\ Len(call.keywords) = 3
  /\ ret = <<23, 25>>

\* an empty keyword list with a text that is not empty
C14_WitnessEmptyList ==
  /\ call.op = "calculate_keyword_score"
  /\ call.keywords = <<>>
  /\ call.text # ""
  /\ ret = <<0, 1>>

\* C21: a keyword is lowercased but not normalised before it is searched in
\* the normalised text, so a keyword with a character that is neither a
\* word character nor whitespace (as 'off-peak') is never found:
\* calculate_keyword_score returns what the other keywords alone add up to,
\* over the length of the whole list.
C21_SpecialKeywordAddsNothing ==
  call.op = "calculate_keyword_score" =>
    LET normalised == preprocess_text(call.text)
        ix         == Index(normalised)
        K          == call.keywords
        special(k) == \E i \in 1..Len(k) :
                        LET c == CharAt(k, i)
                        IN  /\ c \notin LowerSet \cup UpperSet \cup DigitSet \cup {"_"}
                            /\ c \notin {" ", "\t", "\n", "\r", "\f"}
        others     == { n \in 1..Len(K) : ~special(K[n]) }
        \* the sum in tenths over the other keywords that are found
        tenths[F \in SUBSET others] ==
          IF F = {} THEN 0
          ELSE LET n   == CHOOSE m \in F : TRUE
                   occ == count(normalised, ix, lower(K[n]))
               IN  (IF occ > 0 THEN 10 + occ ELSE 0) + tenths[F \ {n}]
        value      == Norm(tenths[others] * call.weight[1], 10 * Len(K) * call.weight[2])
    IN  /\ \A i \in 1..Len(normalised) :
             CharAt(normalised, i) \in LowerSet \cup DigitSet \cup {"_", " "}
        /\ \A n \in 1..Len(K) : special(K[n]) => count(normalised, ix, lower(K[n])) = 0
        /\ K # <<>> => ret = IF value[1] > value[2] THEN <<1, 1>> ELSE value

\* the list of schedule_timetable scored on a text that spells 'off-peak'
\* and holds another keyword of the list
C21_Witness ==
  /\ call.op = "calculate_keyword_score"
  /\ call.keywords = schedule_timetable.keywords
  /\ \E n \in 1..Len(call.keywords) : call.keywords[n] = "off-peak"
  /\ Contains(call.text, Index(call.text), "off-peak")
  /\ Contains(preprocess_text(call.text), Index(preprocess_text(call.text)), "off peak")
  /\ RGt(ret, Whole(0))

\* a text that spells nothing but 'off-peak' scores 0 on the list 'off-peak'
C21_WitnessZero ==
  /\ call.op = "calculate_keyword_score"
  /\ call.keywords = <<"off-peak">>
  /\ call.text = "off-peak\n"
  /\ ret = <<0, 1>>

\* C16: detect_kmrl_content returns min(d / 14 * 2, 1.0), d being the
\* number of the 14 KMRL keywords that occur in the normalised text, however
\* often each occurs; the result is 1.0 exactly when at least half of the
\* keywords (7) are present.
C16_KmrlScoreFormula ==
  call.op = "detect_kmrl_content" =>
    LET normalised == preprocess_text(call.text)
        ix         == Index(normalised)
        d          == Cardinality({ n \in 1..Len(kmrl_keywords) :
                                     count(normalised, ix, kmrl_keywords[n]) > 0 })
    IN  /\ Len(kmrl_keywords) = 14
        /\ ret = IF 2 * d >= 14 THEN <<1, 1>> ELSE Norm(2 * d, 14)
        /\ (ret = <<1, 1>>) <=> (2 * d >= 14)

\* exactly 7 of the 14 keywords are present and the result is 1.0
C16_Witness ==
  /\ call.op = "detect_kmrl_content"
  /\ call.text = "KMRL Kochi Metro, Aluva; Ernakulam\nEdappally metro station "
  /\ ret = <<1, 1>>

\* a keyword that occurs three times counts once
C16_WitnessRepeated ==
  /\ call.op = "detect_kmrl_content"
  /\ call.text = "kochi kochi KOCHI "
  /\ ret = <<1, 7>>

\* C17: the output of preprocess_text holds only lower case letters, digits
\* and single spaces (every other character of the input is removed and
\* every run of whitespace is one space): no other character, and never two
\* whitespace characters side by side.
C17_OnlyAlphanumericsAndSingleSpaces ==
  call.op = "preprocess_text" =>
    /\ \A i \in 1..Len(ret) :
         CharAt(ret, i) \in LowerSet \cup DigitSet \cup {" "}
    /\ \A i \in 1..(Len(ret) - 1) :
         ~(CharAt(ret, i) = " " /\ CharAt(ret, i + 1) = " ")

\* C10: get_confidence_description gives Very High from 0.9, High from 0.7,
\* Medium from 0.5, Low from 0.3 and Very Low below (0.69 Medium, 0.70 High,
\* 0.0 Very Low), and get_category_insights reports as confidence_level the
\* label of the confidence of the first result.
C10_ConfidenceLevels ==
  LET label(c) ==
        IF c[1] * 10 >= 9 * c[2] THEN "Very High"
        ELSE IF c[1] * 10 >= 7 * c[2] THEN "High"
        ELSE IF c[1] * 10 >= 5 * c[2] THEN "Medium"
        ELSE IF c[1] * 10 >= 3 * c[2] THEN "Low"
        ELSE "Very Low"
  IN  /\ call.op = "get_confidence_description" =>
           /\ ret = label(call.confidence)
           /\ (call.confidence = <<69, 100>> => ret = "Medium")
           /\ (call.confidence = <<7, 10>> => ret = "High")
           /\ (call.confidence = <<0, 1>> => ret = "Very Low")
      /\ (call.op = "get_category_insights" /\ call.classifications # <<>>) =>
           ret.confidence_level = label(call.classifications[1].confidence)

\* get_confidence_description has returned High for exactly 0.70
C10_Witness ==
  /\ call.op = "get_confidence_description"
  /\ call.confidence = <<7, 10>>
  /\ ret = "High"

\* get_category_insights has reported Medium for a first result of 0.69
C10_WitnessInsights ==
  /\ call.op = "get_category_insights"
  /\ Len(call.classifications) = 2
  /\ call.classifications[1].confidence = <<69, 100>>
  /\ ret.confidence_level = "Medium"

====
